---- MODULE Spec2Model ----
(***************************************************************************)
(* Model of the receptor controller's per-session service object           *)
(* (internal/controller/receptor.go): the ReceptorService struct, its      *)
(* RegisterConnection / UpdateRoutingTable / SendMessage / Close methods,  *)
(* the session's outbound data channel and the transport loop reading it.  *)
(*                                                                         *)
(* Every method call is run by a task (a goroutine).  A call is split at   *)
(* the statements that touch shared memory, so that calls of different     *)
(* tasks interleave the way goroutines do.  pc[t] names the source line    *)
(* the task is about to execute.                                           *)
(***************************************************************************)
EXTENDS Integers, Sequences, FiniteSets, TLC

(* ------------------------------ bounds --------------------------------- *)

\* Number of identifiers the random source hands out in one run.
MaxUUID == 2

\* Capacity of the smallest outbound data channel (a channel's capacity is
\* set by whoever makes it; see ChanCapOf).
MinChanCap == 1

(* ------------------------------ domains -------------------------------- *)

Tasks == {"t1", "t2"}

\* Goroutines serving HTTP requests of the management server.  One request
\* is followed through its handler at a time; the transport and other
\* callers of Close run beside it.
Handlers == {"h1"}

Sessions == {"s1", "s2"}

\* The identifiers the random source can produce.
UUIDs == { "uuid-" \o ToString(i) : i \in 1 .. MaxUUID }

\* The sessions' channels differ in capacity: s1's is the smallest, s2's
\* holds one Message more.
ChanCapOf(s) == IF s = "s1" THEN MinChanCap ELSE MinChanCap + 1

\* Go's nil: the *uuid.UUID of a failed call, the error of a successful one,
\* the zero value of the Metadata interface.
Nil == "nil"

\* The error uuid.NewRandom returns when the randomness source fails.
ErrRand == "rand: read failed"

\* Arguments of SendMessage calls: (recipient, route, payload, directive).
Requests ==
    { [recipient |-> "nodeX", route |-> << >>, payload |-> "p1", directive |-> "run"],
      [recipient |-> "nodeY", route |-> <<"nodeX", "nodeY">>, payload |-> "p2", directive |-> "ping"] }

\* Arguments of RegisterConnection calls: (peerNodeID, metadata).  The two
\* peer identities differ in length and the two metadata values in dynamic
\* type, so every word of the stored values tells which call wrote it.
Registrations ==
    { [peerNodeID |-> "nodeA", metadata |-> [type |-> "map", data |-> "capsA"]],
      [peerNodeID |-> "nodeBB", metadata |-> [type |-> "string", data |-> "capsB"]] }

\* Arguments of UpdateRoutingTable calls: (edges, seen).
RoutingUpdates ==
    { [edges |-> "e1", seen |-> "n1"], [edges |-> "e2", seen |-> "n2"] }

(* --------------------------- memory layout ------------------------------ *)

\* A Go string is two machine words (data pointer, length); an assignment
\* stores them one after the other.
StringWords(v) == [data |-> v, len |-> Len(v)]

\* A Go interface value is two machine words (dynamic type, data pointer).
IfaceWords(m) == [type |-> m.type, data |-> m.data]

\* The nil interface: both words nil.
NilIface == [type |-> Nil, data |-> Nil]

VARIABLES
    session,      \* session[s]: the ReceptorService struct's data fields
    SendChannel,  \* SendChannel[s]: buffer of the session's outbound data channel
    pc,           \* pc[t]: where task t is in the method it is running
    frame,        \* frame[t]: the call task t is running or ran last (receiver, arguments)
    local,        \* local[t]: locals of the running call (jobID, err)
    ret,          \* ret[t]: what the last finished call of t returned
    issued,       \* identifiers the random source has produced so far
    sent,         \* history: sent[s], every Message sent on s's channel, in send order
    received,     \* history: received[s], every Message the transport read from s
    closeCalled,  \* history: closeCalled[s], Close has been called on s
    closedBefore, \* history: closedBefore[t], Close had been called on the receiver when t's call began
    expired,      \* history: expired[t], the caller's deadline has passed during t's running call
    registered,   \* history: registered[s], argument pairs of the RegisterConnection calls on s
    disturbed,    \* history: disturbed[t], another RegisterConnection call ran on the receiver
                  \* during t's call, or began after it
    connectionMgr, \* connectionMgr[k]: the session the connection locator holds for key k
    hpc,          \* hpc[h]: where request handler h is in the handler it is running
    connID,       \* connID[h]: the request h is serving or served last (handler, decoded body)
    client,       \* client[h]: what GetConnection returned to h
    result,       \* result[h]: the (value, err) h's GetCapabilities or Ping call returned
    response,     \* response[h]: the HTTP response h wrote for its last finished request
    pingJobs,     \* pingJobs[h]: the Messages h's running request has dispatched
    lastOp,       \* history: lastOp[k], the last Register or Remove completed for key k
    closedAgain   \* history: closedAgain[s], a disconnect request called Close on s
                  \* after Close had been called on it

\* The variables of the management server and the connection locator.
mgmtVars == << connectionMgr, hpc, connID, client, result, response, pingJobs,
               lastOp, closedAgain >>

vars == << session, SendChannel, pc, frame, local, ret, issued, sent, received,
           closeCalled, closedBefore, expired, registered, disturbed, mgmtVars >>

(* ------------------------------ the struct ------------------------------ *)

\* Identity a session is constructed with (Account, NodeID): fixed for its life.
AccountOf(s) == IF s = "s1" THEN "acct1" ELSE "acct2"

NodeIDOf(s) == IF s = "s1" THEN "nodeX" ELSE "nodeY"

\* A ReceptorService as its creator builds it: identity set, PeerNodeID and
\* Metadata at their zero values.
NewReceptorService(s) ==
    [ Account    |-> AccountOf(s),
      NodeID     |-> NodeIDOf(s),
      PeerNodeID |-> StringWords(""),
      Metadata   |-> IfaceWords(NilIface) ]

\* The topology snapshot a session holds.  The struct has no field for it
\* (edges and seen are commented out), so there is nothing to read.
NoRoutingFacts == [edges |-> Nil, seen |-> Nil]

RoutingFacts(r) == NoRoutingFacts

\* Mutant of NewMessage: the Message is built with the zero identifier
\* instead of jobID.
NewMessage_ZeroID(jobID, recipient, route, payload, directive) ==
    [ MessageID |-> Nil,
      Recipient |-> recipient,
      RouteList |-> route,
      Payload   |-> payload,
      Directive |-> directive ]

\* Mutant of NewMessage: the two string arguments recipient and directive
\* are taken in the wrong order.
NewMessage_Swapped(jobID, recipient, route, payload, directive) ==
    [ MessageID |-> jobID,
      Recipient |-> directive,
      RouteList |-> route,
      Payload   |-> payload,
      Directive |-> recipient ]

\* Message{MessageID: jobID, Recipient: recipient, RouteList: route,
\*         Payload: payload, Directive: directive}
NewMessage(jobID, recipient, route, payload, directive) ==
    [ MessageID |-> jobID,
      Recipient |-> recipient,
      RouteList |-> route,
      Payload   |-> payload,
      Directive |-> directive ]

(* ------------------------------ channels -------------------------------- *)

\* Mutant of CanSend: a send never proceeds.
CanSend_Never(ch, cap) == FALSE

\* A send proceeds when the channel's buffer has room; otherwise the sending
\* goroutine stays parked at the send statement.
CanSend(ch, cap) == Len(ch) < cap

\* The session with the smallest channel.
BusySession == "s1"

\* An earlier SendMessage call that has returned: its caller, its arguments,
\* the identifier line 47 drew for it (before the identifiers of UUIDs, which
\* are the ones still to be drawn) and the Message lines 52-53 built from
\* them.
EarlierCaller == "t1"

EarlierRequest == CHOOSE req \in Requests : req.route = << >>

EarlierUUID == "uuid-0"

EarlierMessage ==
    NewMessage(EarlierUUID, EarlierRequest.recipient, EarlierRequest.route,
               EarlierRequest.payload, EarlierRequest.directive)

\* Mutant of ChanSend: the value goes to the front (a stack, not a queue).
ChanSend_Front(ch, msg) == <<msg>> \o ch

\* The buffer after a send: the value goes to the back.
ChanSend(ch, msg) == Append(ch, msg)

\* The value a receive takes, and the buffer it leaves: the front, and the rest.
ChanFront(ch) == Head(ch)

ChanRest(ch) == Tail(ch)

(* --------------------------- task bookkeeping --------------------------- *)

NoLocal == [jobID |-> Nil, err |-> Nil]

NoCall == [op |-> "none"]

InSendMessage(t) == pc[t] \in {"sm47", "sm59", "sm61"}

InRegisterConnection(t) == pc[t] \in {"rc32_data", "rc32_len", "rc33_type", "rc33_data", "rc35"}

\* Tasks whose running or last call is RegisterConnection on session s.
RegistrarsOf(s) ==
    { u \in Tasks : frame[u].op = "RegisterConnection" /\ frame[u].s = s }

\* Tasks other than t that are inside RegisterConnection on session s.
OtherRegistrars(t, s) ==
    { u \in RegistrarsOf(s) \ {t} : InRegisterConnection(u) }

\* The (account, node_id) pairs connections are looked up by: the identities
\* the sessions are built with.
Keys == { [Account |-> AccountOf(s), NodeID |-> NodeIDOf(s)] : s \in Sessions }

\* A nil controller.Receptor: what GetConnection returns when it finds nothing.
NoSession == "nil"

NoRequest == [handler |-> "none"]

\* The zero values of a handler's (value, err) locals.
NoResult == [called |-> FALSE, value |-> Nil, err |-> Nil]

NoResponse == [code |-> 0]

NoOp == [op |-> "none", s |-> NoSession, displaced |-> NoSession]

Init ==
    /\ session = [s \in Sessions |-> NewReceptorService(s)]
    /\ SendChannel = [s \in Sessions |-> << >>]
    /\ pc = [t \in Tasks |-> "idle"]
    /\ frame = [t \in Tasks |-> NoCall]
    /\ local = [t \in Tasks |-> NoLocal]
    /\ ret = [t \in Tasks |-> [err |-> Nil]]
    /\ issued = {}
    /\ sent = [s \in Sessions |-> << >>]
    /\ received = [s \in Sessions |-> << >>]
    /\ closeCalled = [s \in Sessions |-> FALSE]
    /\ closedBefore = [t \in Tasks |-> FALSE]
    /\ expired = [t \in Tasks |-> FALSE]
    /\ registered = [s \in Sessions |-> {}]
    /\ disturbed = [t \in Tasks |-> FALSE]
    /\ connectionMgr = [k \in Keys |-> NoSession]
    /\ hpc = [h \in Handlers |-> "idle"]
    /\ connID = [h \in Handlers |-> NoRequest]
    /\ client = [h \in Handlers |-> NoSession]
    /\ result = [h \in Handlers |-> NoResult]
    /\ response = [h \in Handlers |-> NoResponse]
    /\ pingJobs = [h \in Handlers |-> << >>]
    /\ lastOp = [k \in Keys |-> NoOp]
    /\ closedAgain = [s \in Sessions |-> FALSE]

(* ------------------------------ SendMessage ----------------------------- *)

\* A task calls r.SendMessage(recipient, route, payload, directive) on
\* session s.  The run is bounded by the identifiers left to hand out.
CallSendMessage(t, s, req) ==
    /\ pc[t] = "idle"
    /\ Cardinality({u \in Tasks : pc[u] = "sm47"}) < Cardinality(UUIDs \ issued)
    /\ pc' = [pc EXCEPT ![t] = "sm47"]
    /\ frame' = [frame EXCEPT ![t] = [op |-> "SendMessage", s |-> s, req |-> req]]
    /\ local' = [local EXCEPT ![t] = NoLocal]
    /\ ret' = [ret EXCEPT ![t] = [err |-> Nil]]
    /\ closedBefore' = [closedBefore EXCEPT ![t] = closeCalled[s]]
    /\ expired' = [expired EXCEPT ![t] = FALSE]
    /\ UNCHANGED << mgmtVars, session, SendChannel, issued, sent, received, closeCalled,
                    registered, disturbed >>

\* jobID, err := uuid.NewRandom() with err == nil: a version-4 identifier
\* drawn at random.  The draw is any identifier not drawn before.
NewRandomOk(t) ==
    /\ pc[t] = "sm47"
    /\ \E id \in UUIDs \ issued :
          /\ local' = [local EXCEPT ![t] = [jobID |-> id, err |-> Nil]]
          /\ issued' = issued \cup {id}
    /\ pc' = [pc EXCEPT ![t] = "sm59"]
    /\ UNCHANGED << mgmtVars, session, SendChannel, frame, ret, sent, received, closeCalled,
                    closedBefore, expired, registered, disturbed >>

\* Mutant of NewRandomFails: the error is logged and the call goes on to the
\* send with the zero identifier.
NewRandomFails_Proceeds(t) ==
    /\ pc[t] = "sm47"
    /\ local' = [local EXCEPT ![t] = [jobID |-> Nil, err |-> ErrRand]]
    /\ pc' = [pc EXCEPT ![t] = "sm59"]
    /\ UNCHANGED << mgmtVars, session, SendChannel, frame, ret, issued, sent, received, closeCalled,
                    closedBefore, expired, registered, disturbed >>

\* jobID, err := uuid.NewRandom() with err != nil: log and return nil, err.
NewRandomFails(t) ==
    /\ pc[t] = "sm47"
    /\ local' = [local EXCEPT ![t] = [jobID |-> Nil, err |-> ErrRand]]
    /\ ret' = [ret EXCEPT ![t] = [id |-> Nil, err |-> ErrRand]]
    /\ pc' = [pc EXCEPT ![t] = "idle"]
    /\ expired' = [expired EXCEPT ![t] = FALSE]
    /\ UNCHANGED << mgmtVars, session, SendChannel, frame, issued, sent, received, closeCalled,
                    closedBefore, registered, disturbed >>

\* Mutant of SendOnChannel: the call goes on to its return without sending.
SendOnChannel_Skipped(t) ==
    /\ pc[t] = "sm59"
    /\ pc' = [pc EXCEPT ![t] = "sm61"]
    /\ UNCHANGED << mgmtVars, session, SendChannel, frame, local, ret, issued, sent, received,
                    closeCalled, closedBefore, expired, registered, disturbed >>

\* msg := Message{...}; r.SendChannel <- msg.  The task stays here while the
\* channel is full.
SendOnChannel(t) ==
    /\ pc[t] = "sm59"
    /\ LET s == frame[t].s
           req == frame[t].req
           msg == NewMessage(local[t].jobID, req.recipient, req.route,
                             req.payload, req.directive)
       IN /\ CanSend(SendChannel[s], ChanCapOf(s))
          /\ SendChannel' = [SendChannel EXCEPT ![s] = ChanSend(@, msg)]
          /\ sent' = [sent EXCEPT ![s] = Append(@, msg)]
    /\ pc' = [pc EXCEPT ![t] = "sm61"]
    /\ UNCHANGED << mgmtVars, session, frame, local, ret, issued, received, closeCalled,
                    closedBefore, expired, registered, disturbed >>

\* return &jobID, nil
ReturnJobID(t) ==
    /\ pc[t] = "sm61"
    /\ ret' = [ret EXCEPT ![t] = [id |-> local[t].jobID, err |-> Nil]]
    /\ local' = [local EXCEPT ![t] = NoLocal]
    /\ pc' = [pc EXCEPT ![t] = "idle"]
    /\ expired' = [expired EXCEPT ![t] = FALSE]
    /\ UNCHANGED << mgmtVars, session, SendChannel, frame, issued, sent, received, closeCalled,
                    closedBefore, registered, disturbed >>

\* The caller's deadline passes (or the caller cancels) while its SendMessage
\* call is running.  SendMessage takes no context, so nothing in it reacts.
DeadlineExpires(t) ==
    /\ InSendMessage(t)
    /\ ~expired[t]
    /\ expired' = [expired EXCEPT ![t] = TRUE]
    /\ UNCHANGED << mgmtVars, session, SendChannel, pc, frame, local, ret, issued, sent,
                    received, closeCalled, closedBefore, registered, disturbed >>

\* The caller's deadline passes (or the caller cancels) while its SendMessage
\* call is blocked: it waits at the send on a full channel.
DeadlineExpiresBlocked(t) ==
    /\ pc[t] = "sm59"
    /\ ~CanSend(SendChannel[frame[t].s], ChanCapOf(frame[t].s))
    /\ DeadlineExpires(t)

\* The session's transport loop receives the next Message from the channel.
TransportReceive(s) ==
    /\ SendChannel[s] /= << >>
    /\ received' = [received EXCEPT ![s] = Append(@, ChanFront(SendChannel[s]))]
    /\ SendChannel' = [SendChannel EXCEPT ![s] = ChanRest(@)]
    /\ UNCHANGED << mgmtVars, session, pc, frame, local, ret, issued, sent, closeCalled,
                    closedBefore, expired, registered, disturbed >>

(* --------------------------------- Close -------------------------------- *)

\* Mutant of CloseSession: Close throws away what waits in the session's
\* outbound data channel.
CloseSession_Drains(s) ==
    /\ closeCalled' = [closeCalled EXCEPT ![s] = TRUE]
    /\ SendChannel' = [SendChannel EXCEPT ![s] = << >>]
    /\ UNCHANGED session

\* What a call of Close does to session s: the method body is empty, so the
\* struct and its channel stay as they are; the history notes the call.
CloseSession(s) ==
    /\ closeCalled' = [closeCalled EXCEPT ![s] = TRUE]
    /\ UNCHANGED << session, SendChannel >>

\* r.Close(): the method body is empty.  The call is recorded in the history
\* variables only.
Close(t, s) ==
    /\ pc[t] = "idle"
    /\ CloseSession(s)
    /\ UNCHANGED << mgmtVars, pc, frame, local, ret, issued, sent,
                    received, closedBefore, expired, registered, disturbed >>

(* --------------------------- RegisterConnection ------------------------- *)

\* A task calls r.RegisterConnection(peerNodeID, metadata) on session s.
CallRegisterConnection(t, s, reg) ==
    /\ pc[t] = "idle"
    /\ pc' = [pc EXCEPT ![t] = "rc32_data"]
    /\ frame' = [frame EXCEPT ![t] = [op |-> "RegisterConnection", s |-> s, reg |-> reg]]
    /\ ret' = [ret EXCEPT ![t] = [err |-> Nil]]
    /\ registered' = [registered EXCEPT ![s] = @ \cup {reg}]
    /\ disturbed' = [u \in Tasks |->
                        IF u = t THEN OtherRegistrars(t, s) /= {}
                        ELSE disturbed[u] \/ u \in RegistrarsOf(s)]
    /\ UNCHANGED << mgmtVars, session, SendChannel, local, issued, sent, received,
                    closeCalled, closedBefore, expired >>

\* The struct after r.PeerNodeID = peerNodeID has stored one of its two words.
StorePeerNodeID(r, word, peerNodeID) ==
    [r EXCEPT !.PeerNodeID[word] = StringWords(peerNodeID)[word]]

\* The struct after r.Metadata = metadata has stored one of its two words.
StoreMetadata(r, word, metadata) ==
    [r EXCEPT !.Metadata[word] = IfaceWords(metadata)[word]]

\* One word-sized store of RegisterConnection: no lock is held around the
\* stores, so stores of concurrent calls interleave word by word.
RegisterStore(t, at, next) ==
    /\ pc[t] = at
    /\ LET s == frame[t].s
           reg == frame[t].reg
       IN session' = [session EXCEPT ![s] =
             CASE at = "rc32_data" -> StorePeerNodeID(@, "data", reg.peerNodeID)
               [] at = "rc32_len"  -> StorePeerNodeID(@, "len", reg.peerNodeID)
               [] at = "rc33_type" -> StoreMetadata(@, "type", reg.metadata)
               [] at = "rc33_data" -> StoreMetadata(@, "data", reg.metadata)]
    /\ pc' = [pc EXCEPT ![t] = next]
    /\ UNCHANGED << mgmtVars, SendChannel, frame, local, ret, issued, sent, received,
                    closeCalled, closedBefore, expired, registered, disturbed >>

\* r.PeerNodeID = peerNodeID
StorePeerData(t) == RegisterStore(t, "rc32_data", "rc32_len")

StorePeerLen(t) == RegisterStore(t, "rc32_len", "rc33_type")

\* r.Metadata = metadata
StoreMetaType(t) == RegisterStore(t, "rc33_type", "rc33_data")

StoreMetaData(t) == RegisterStore(t, "rc33_data", "rc35")

\* return nil
ReturnRegisterConnection(t) ==
    /\ pc[t] = "rc35"
    /\ ret' = [ret EXCEPT ![t] = [err |-> Nil]]
    /\ pc' = [pc EXCEPT ![t] = "idle"]
    /\ UNCHANGED << mgmtVars, session, SendChannel, frame, local, issued, sent, received,
                    closeCalled, closedBefore, expired, registered, disturbed >>

(* --------------------------- UpdateRoutingTable ------------------------- *)

\* A task calls r.UpdateRoutingTable(edges, seen) on session s.
CallUpdateRoutingTable(t, s, upd) ==
    /\ pc[t] = "idle"
    /\ pc' = [pc EXCEPT ![t] = "ur39"]
    /\ frame' = [frame EXCEPT ![t] = [op |-> "UpdateRoutingTable", s |-> s, upd |-> upd]]
    /\ ret' = [ret EXCEPT ![t] = [err |-> Nil]]
    /\ UNCHANGED << mgmtVars, session, SendChannel, local, issued, sent, received,
                    closeCalled, closedBefore, expired, registered, disturbed >>

\* The struct after UpdateRoutingTable's body: the two arguments are logged
\* and nothing is stored.
UpdatedRoutingTable(r, edges, seen) == r

\* log.Println("edges:", edges); log.Println("seen:", seen); return nil
ReturnUpdateRoutingTable(t) ==
    /\ pc[t] = "ur39"
    /\ session' = [session EXCEPT ![frame[t].s] =
                      UpdatedRoutingTable(@, frame[t].upd.edges, frame[t].upd.seen)]
    /\ ret' = [ret EXCEPT ![t] = [err |-> Nil]]
    /\ pc' = [pc EXCEPT ![t] = "idle"]
    /\ UNCHANGED << mgmtVars, SendChannel, frame, local, issued, sent, received,
                    closeCalled, closedBefore, expired, registered, disturbed >>

(* ------------------------------ the system ------------------------------ *)

(***************************************************************************)
(* The management server (internal/controller/api/management.go) and the   *)
(* connection locator it looks sessions up in.                             *)
(***************************************************************************)

CONNECTED_STATUS == "connected"

DISCONNECTED_STATUS == "disconnected"

\* http.StatusOK and http.StatusBadRequest.
StatusOK == 200

StatusBadRequest == 400

\* The failures of section 7 a session operation can return.
ErrSessionClosed == "SessionClosed"

ErrTimeout == "Timeout"

ErrUpstreamFault == "UpstreamFault"

ErrIdentifierGeneration == "IdentifierGenerationFailure"

\* The variables this part never touches.
serviceVars == << pc, frame, local, ret, closedBefore, expired, registered, disturbed >>

(* -------------------------- connection locator -------------------------- *)

\* Mutant of Registered: an entry that exists is kept.
Registered_KeepsOld(m, k, s) == IF m[k] = NoSession THEN [m EXCEPT ![k] = s] ELSE m

\* The index after Register(account, node_id, session): the entry for the key
\* is inserted or overwritten.
Registered(m, k, s) == [m EXCEPT ![k] = s]

\* The index after Remove(account, node_id): the entry is gone, if there was one.
Removed(m, k) == [m EXCEPT ![k] = NoSession]

\* GetConnection(account, node_id): the session indexed under the key, or nil.
GetConnection(m, account, nodeID) ==
    LET k == [Account |-> account, NodeID |-> nodeID]
    IN IF k \in DOMAIN m THEN m[k] ELSE NoSession

\* GetConnectionsByAccount(account): the node identities indexed under the account.
GetConnectionsByAccount(m, account) ==
    { k.NodeID : k \in { x \in DOMAIN m : x.Account = account /\ m[x] /= NoSession } }

\* GetAllConnections(): per account with a connection, its node identities.
GetAllConnections(m) ==
    LET accounts == { k.Account : k \in { x \in DOMAIN m : m[x] /= NoSession } }
    IN [a \in accounts |-> GetConnectionsByAccount(m, a)]

\* The transport registers session s under key k.  The history records the
\* operation and the other session it took the key from, if there was one.
Register(k, s) ==
    /\ connectionMgr' = Registered(connectionMgr, k, s)
    /\ lastOp' = [lastOp EXCEPT ![k] =
                     [op |-> "Register", s |-> s,
                      displaced |-> IF connectionMgr[k] = s THEN NoSession
                                    ELSE connectionMgr[k]]]
    /\ UNCHANGED << serviceVars, session, SendChannel, issued, sent, received, closeCalled,
                    hpc, connID, client, result, response, pingJobs, closedAgain >>

\* The transport removes key k after its session's connection has gone.
Remove(k) ==
    /\ connectionMgr' = Removed(connectionMgr, k)
    /\ lastOp' = [lastOp EXCEPT ![k] =
                     [op |-> "Remove", s |-> NoSession, displaced |-> NoSession]]
    /\ UNCHANGED << serviceVars, session, SendChannel, issued, sent, received, closeCalled,
                    hpc, connID, client, result, response, pingJobs, closedAgain >>

(* --------------------------- request handling --------------------------- *)

\* Request bodies: a connectionID for each key, and one that does not decode.
Bodies ==
    { [ok |-> TRUE, Account |-> k.Account, NodeID |-> k.NodeID] : k \in Keys }
        \cup { [ok |-> FALSE, Account |-> "", NodeID |-> ""] }

\* errorResponse{Title: title, Status: status, Detail: detail} written
\* with its status.
ErrorResponse(status, title, detail) ==
    [code |-> status, kind |-> "error", title |-> title, detail |-> detail]

\* The key a decoded connectionID names.
KeyOf(id) == [Account |-> id.Account, NodeID |-> id.NodeID]

\* The key a session's own identity makes.
SessionKey(s) == [Account |-> AccountOf(s), NodeID |-> NodeIDOf(s)]

\* The handler returns: the response is written and the request's locals
\* (connID, client, the call's results) are gone.
Respond(h, resp) ==
    /\ hpc' = [hpc EXCEPT ![h] = "idle"]
    /\ response' = [response EXCEPT ![h] = resp]
    /\ connID' = [connID EXCEPT ![h] = NoRequest]
    /\ client' = [client EXCEPT ![h] = NoSession]
    /\ result' = [result EXCEPT ![h] = NoResult]
    /\ pingJobs' = [pingJobs EXCEPT ![h] = << >>]

\* A handler takes a request: body := http.MaxBytesReader(...); decodeJSON(body,
\* &connID).  A body that does not decode is answered with 400 at once;
\* otherwise the handler goes on at `next`.
Decode(h, handler, body, next) ==
    /\ hpc[h] = "idle"
    /\ IF body.ok
       THEN /\ hpc' = [hpc EXCEPT ![h] = next]
            /\ connID' = [connID EXCEPT ![h] =
                             [handler |-> handler,
                              Account |-> body.Account, NodeID |-> body.NodeID]]
            /\ response' = [response EXCEPT ![h] = NoResponse]
            /\ UNCHANGED << client, result, pingJobs >>
       ELSE Respond(h, ErrorResponse(StatusBadRequest, "Unable to process json input",
                                     "invalid json"))
    /\ UNCHANGED << serviceVars, session, SendChannel, issued, sent, received, closeCalled,
                    connectionMgr, lastOp, closedAgain >>

(* ------------------------------ disconnect ------------------------------ *)

DisconnectDecode(h, body) == Decode(h, "disconnect", body, "dc89")

\* errMsg := fmt.Sprintf("No connection found for node (%s:%s)", ...)
NoConnectionFound(id) ==
    "No connection found for node (" \o id.Account \o ":" \o id.NodeID \o ")"

\* client := s.connectionMgr.GetConnection(connID.Account, connID.NodeID);
\* if client == nil: 400 "No connection found for node (...)".
DisconnectGetConnection(h) ==
    /\ hpc[h] = "dc89"
    /\ LET c == GetConnection(connectionMgr, connID[h].Account, connID[h].NodeID)
       IN IF c = NoSession
          THEN Respond(h, ErrorResponse(StatusBadRequest, NoConnectionFound(connID[h]),
                                        NoConnectionFound(connID[h])))
          ELSE /\ client' = [client EXCEPT ![h] = c]
               /\ hpc' = [hpc EXCEPT ![h] = "dc103"]
               /\ UNCHANGED << response, connID, result, pingJobs >>
    /\ UNCHANGED << serviceVars, session, SendChannel, issued, sent, received, closeCalled,
                    connectionMgr, lastOp, closedAgain >>

\* Mutant of DisconnectClose: the handler also takes the entry out of the
\* connection locator.
DisconnectClose_Removes(h) ==
    /\ hpc[h] = "dc103"
    /\ CloseSession(client[h])
    /\ closedAgain' = [closedAgain EXCEPT ![client[h]] = @ \/ closeCalled[client[h]]]
    /\ connectionMgr' = Removed(connectionMgr, KeyOf(connID[h]))
    /\ Respond(h, [code |-> StatusOK, kind |-> "empty"])
    /\ UNCHANGED << serviceVars, issued, sent, received, lastOp >>

\* Mutant of DisconnectClose: every session is closed, not only the client.
DisconnectClose_All(h) ==
    /\ hpc[h] = "dc103"
    /\ closeCalled' = [s \in Sessions |-> TRUE]
    /\ closedAgain' = [closedAgain EXCEPT ![client[h]] = @ \/ closeCalled[client[h]]]
    /\ Respond(h, [code |-> StatusOK, kind |-> "empty"])
    /\ UNCHANGED << serviceVars, session, SendChannel, issued, sent, received,
                    connectionMgr, lastOp >>

\* client.Close(req.Context()); writeJSONResponse(w, http.StatusOK, struct{}{})
DisconnectClose(h) ==
    /\ hpc[h] = "dc103"
    /\ CloseSession(client[h])
    /\ closedAgain' = [closedAgain EXCEPT ![client[h]] = @ \/ closeCalled[client[h]]]
    /\ Respond(h, [code |-> StatusOK, kind |-> "empty"])
    /\ UNCHANGED << serviceVars, issued, sent, received, connectionMgr, lastOp >>

(* -------------------------------- status -------------------------------- *)

\* A value a capability query can hand back beside an error.
EmptyCapabilities == "{}"

\* The failures a session operation can end with: the agent reports a fault,
\* the request's context is cancelled or passes its deadline (which can
\* happen at any moment), or the session has been closed.
OperationErrors(isClosed) ==
    {ErrUpstreamFault, ErrTimeout}
        \cup (IF isClosed THEN {ErrSessionClosed} ELSE {})

\* client.GetCapabilities(ctx): the (capabilities, err) pairs the call can
\* return: the session's metadata and no error, or an error beside nil or
\* beside some value.
GetCapabilities(r, isClosed) ==
    { [called |-> TRUE, value |-> r.Metadata.data, err |-> Nil] }
        \cup { [called |-> TRUE, value |-> v, err |-> e] :
                  v \in {Nil, EmptyCapabilities},
                  e \in OperationErrors(isClosed) }

\* Mutant of ConnectionStatus: the status does not look at the lookup's result.
ConnectionStatus_Always(c) == CONNECTED_STATUS

\* if client != nil { Status = CONNECTED_STATUS ... } else { Status = DISCONNECTED_STATUS }
ConnectionStatus(c) == IF c /= NoSession THEN CONNECTED_STATUS ELSE DISCONNECTED_STATUS

\* connectionStatus.Capabilities = capabilities: assigned after the error is
\* logged, whether or not there was one.
ReportedCapabilities(capabilities, err) == capabilities

\* writeJSONResponse(w, http.StatusOK, connectionStatus).  Capabilities is
\* tagged omitempty: a nil value leaves the field out of the response.
StatusResponse(status, capabilities) ==
    [code |-> StatusOK, kind |-> "status", Status |-> status, Capabilities |-> capabilities]

StatusDecode(h, body) == Decode(h, "status", body, "st136")

\* client := s.connectionMgr.GetConnection(connID.Account, connID.NodeID);
\* with no client the response is written at once, without capabilities.
StatusGetConnection(h) ==
    /\ hpc[h] = "st136"
    /\ LET c == GetConnection(connectionMgr, connID[h].Account, connID[h].NodeID)
       IN IF c = NoSession
          THEN Respond(h, StatusResponse(ConnectionStatus(c), Nil))
          ELSE /\ client' = [client EXCEPT ![h] = c]
               /\ hpc' = [hpc EXCEPT ![h] = "st139"]
               /\ UNCHANGED << response, connID, result, pingJobs >>
    /\ UNCHANGED << serviceVars, session, SendChannel, issued, sent, received, closeCalled,
                    connectionMgr, lastOp, closedAgain >>

\* capabilities, err := client.GetCapabilities(req.Context())
StatusGetCapabilities(h) ==
    /\ hpc[h] = "st139"
    /\ \E res \in GetCapabilities(session[client[h]], closeCalled[client[h]]) :
          result' = [result EXCEPT ![h] = res]
    /\ hpc' = [hpc EXCEPT ![h] = "st140"]
    /\ UNCHANGED << serviceVars, session, SendChannel, issued, sent, received, closeCalled,
                    connectionMgr, connID, client, response, pingJobs, lastOp, closedAgain >>

\* An error is logged; connectionStatus.Capabilities = capabilities; the
\* response is written with status 200.
StatusRespond(h) ==
    /\ hpc[h] = "st140"
    /\ Respond(h, StatusResponse(ConnectionStatus(client[h]),
                                 ReportedCapabilities(result[h].value, result[h].err)))
    /\ UNCHANGED << serviceVars, session, SendChannel, issued, sent, received, closeCalled,
                    connectionMgr, lastOp, closedAgain >>

(* --------------------------------- ping --------------------------------- *)

\* The directive and payload of a ping job, and the payload of its reply.
PingDirective == "receptor:ping"

PingPayload == "ping"

PongPayload == "pong"

PingDecode(h, body) == Decode(h, "ping", body, "pg183")

\* pingResponse := connectionPingResponse{Status: ..., Payload: ...}
\* writeJSONResponse(w, http.StatusOK, pingResponse)
PingResponse(status, payload) ==
    [code |-> StatusOK, kind |-> "ping", Status |-> status, Payload |-> payload]

\* client := s.connectionMgr.GetConnection(connID.Account, connID.NodeID);
\* with no client the disconnected response is written at once.
PingGetConnection(h) ==
    /\ hpc[h] = "pg183"
    /\ LET c == GetConnection(connectionMgr, connID[h].Account, connID[h].NodeID)
       IN IF c = NoSession
          THEN Respond(h, PingResponse(DISCONNECTED_STATUS, Nil))
          ELSE /\ client' = [client EXCEPT ![h] = c]
               /\ hpc' = [hpc EXCEPT ![h] = "pg191"]
               /\ UNCHANGED << response, connID, result, pingJobs >>
    /\ UNCHANGED << serviceVars, session, SendChannel, issued, sent, received, closeCalled,
                    connectionMgr, lastOp, closedAgain >>

\* Mutant of PingArguments: the route is left empty.
PingArguments_NoRoute(id) ==
    [account |-> id.Account, recipient |-> id.NodeID, route |-> << >>]

\* client.Ping(req.Context(), connID.Account, connID.NodeID, []string{connID.NodeID})
PingArguments(id) ==
    [account |-> id.Account, recipient |-> id.NodeID, route |-> <<id.NodeID>>]

\* Ping, first half: the job is dispatched on the client's outbound data
\* channel under a fresh identifier.
PingDispatch(h) ==
    /\ hpc[h] = "pg191"
    /\ LET s == client[h]
           args == PingArguments(connID[h])
       IN /\ CanSend(SendChannel[s], ChanCapOf(s))
          /\ \E id \in UUIDs \ issued :
                LET msg == NewMessage(id, args.recipient, args.route,
                                      PingPayload, PingDirective)
                IN /\ issued' = issued \cup {id}
                   /\ SendChannel' = [SendChannel EXCEPT ![s] = ChanSend(@, msg)]
                   /\ sent' = [sent EXCEPT ![s] = Append(@, msg)]
                   /\ pingJobs' = [pingJobs EXCEPT ![h] = Append(@, msg)]
    /\ hpc' = [hpc EXCEPT ![h] = "pg191_wait"]
    /\ UNCHANGED << serviceVars, session, received, closeCalled, connectionMgr, connID,
                    client, result, response, lastOp, closedAgain >>

\* Ping, first half, failing: no identifier could be generated, the session
\* is closed, or the context ended while the send was waiting.
PingDispatchFails(h) ==
    /\ hpc[h] = "pg191"
    /\ \E e \in {ErrIdentifierGeneration}
                   \cup (OperationErrors(closeCalled[client[h]]) \ {ErrUpstreamFault}) :
          result' = [result EXCEPT ![h] = [called |-> TRUE, value |-> Nil, err |-> e]]
    /\ hpc' = [hpc EXCEPT ![h] = "pg192"]
    /\ UNCHANGED << serviceVars, session, SendChannel, issued, sent, received, closeCalled,
                    connectionMgr, connID, client, response, pingJobs, lastOp, closedAgain >>

\* Ping, second half: the reply to the job arrives (the transport has sent
\* the job on), or the wait for it fails.
PingReply(h) ==
    /\ hpc[h] = "pg191_wait"
    /\ \/ /\ \E i \in DOMAIN received[client[h]] :
                received[client[h]][i] = pingJobs[h][1]
          /\ result' = [result EXCEPT ![h] =
                           [called |-> TRUE, value |-> PongPayload, err |-> Nil]]
       \/ \E e \in OperationErrors(closeCalled[client[h]]) :
             result' = [result EXCEPT ![h] = [called |-> TRUE, value |-> Nil, err |-> e]]
    /\ hpc' = [hpc EXCEPT ![h] = "pg192"]
    /\ UNCHANGED << serviceVars, session, SendChannel, issued, sent, received, closeCalled,
                    connectionMgr, connID, client, response, pingJobs, lastOp, closedAgain >>

\* pingResponse.Status = CONNECTED_STATUS; pingResponse.Payload, err = ...;
\* if err != nil: 400 "Ping failed" with the error's text as detail; else
\* 200 with the payload.
PingRespond(h) ==
    /\ hpc[h] = "pg192"
    /\ Respond(h, IF result[h].err /= Nil
                  THEN ErrorResponse(StatusBadRequest, "Ping failed", result[h].err)
                  ELSE PingResponse(CONNECTED_STATUS, result[h].value))
    /\ UNCHANGED << serviceVars, session, SendChannel, issued, sent, received, closeCalled,
                    connectionMgr, lastOp, closedAgain >>

(* ------------------------------- listings ------------------------------- *)

\* The account ids a listing can be asked for: those of the keys, and one
\* no session has.
AccountIDs == { k.Account : k \in Keys } \cup {"acct3"}

\* A handler that reads no body answers in one step.
Listing(h, handler, connections) ==
    /\ hpc[h] = "idle"
    /\ Respond(h, [code |-> StatusOK, kind |-> handler, Connections |-> connections])
    /\ UNCHANGED << serviceVars, session, SendChannel, issued, sent, received, closeCalled,
                    connectionMgr, lastOp, closedAgain >>

\* allReceptorConnections := s.connectionMgr.GetAllConnections(); the response
\* lists, per account, its connections (in the map's iteration order, which
\* is not fixed: the lists are kept as sets).
HandleConnectionListing(h) ==
    Listing(h, "listing", GetAllConnections(connectionMgr))

\* accountConnections := s.connectionMgr.GetConnectionsByAccount(accountId)
HandleConnectionListingByAccount(h, accountId) ==
    Listing(h, "listingByAccount", GetConnectionsByAccount(connectionMgr, accountId))

\* Dispatch: SendMessage calls, the transport loop, Close and caller deadlines.
\* These actions read and write the channels and never the struct's data fields.
DispatchNext ==
    \/ \E t \in Tasks, s \in Sessions, req \in Requests : CallSendMessage(t, s, req)
    \/ \E t \in Tasks : NewRandomOk(t)
    \/ \E t \in Tasks : NewRandomFails(t)
    \/ \E t \in Tasks : SendOnChannel(t)
    \/ \E t \in Tasks : ReturnJobID(t)
    \/ \E t \in Tasks : DeadlineExpires(t)
    \/ \E s \in Sessions : TransportReceive(s)
    \/ \E t \in Tasks, s \in Sessions : Close(t, s)

\* Registration: RegisterConnection and UpdateRoutingTable calls.  These
\* actions read and write the struct's data fields and never the channels.
RegistrationNext ==
    \/ \E t \in Tasks, s \in Sessions, reg \in Registrations : CallRegisterConnection(t, s, reg)
    \/ \E t \in Tasks : StorePeerData(t)
    \/ \E t \in Tasks : StorePeerLen(t)
    \/ \E t \in Tasks : StoreMetaType(t)
    \/ \E t \in Tasks : StoreMetaData(t)
    \/ \E t \in Tasks : ReturnRegisterConnection(t)
    \/ \E t \in Tasks, s \in Sessions, upd \in RoutingUpdates : CallUpdateRoutingTable(t, s, upd)
    \/ \E t \in Tasks : ReturnUpdateRoutingTable(t)

\* Management: the HTTP handlers, the connection locator as the transport
\* drives it (each session registered under its own identity), the transport
\* loop reading the channels, and Close called from elsewhere.
ManagementNext ==
    \/ \E s \in Sessions : Register(SessionKey(s), s)
    \/ \E k \in Keys : Remove(k)
    \/ \E h \in Handlers, body \in Bodies : DisconnectDecode(h, body)
    \/ \E h \in Handlers : DisconnectGetConnection(h)
    \/ \E h \in Handlers : DisconnectClose(h)
    \/ \E h \in Handlers, body \in Bodies : StatusDecode(h, body)
    \/ \E h \in Handlers : StatusGetConnection(h)
    \/ \E h \in Handlers : StatusGetCapabilities(h)
    \/ \E h \in Handlers : StatusRespond(h)
    \/ \E h \in Handlers, body \in Bodies : PingDecode(h, body)
    \/ \E h \in Handlers : PingGetConnection(h)
    \/ \E h \in Handlers : PingDispatch(h)
    \/ \E h \in Handlers : PingDispatchFails(h)
    \/ \E h \in Handlers : PingReply(h)
    \/ \E h \in Handlers : PingRespond(h)
    \/ \E h \in Handlers : HandleConnectionListing(h)
    \/ \E h \in Handlers, a \in AccountIDs : HandleConnectionListingByAccount(h, a)
    \/ \E s \in Sessions : TransportReceive(s)
    \/ \E t \in Tasks, s \in Sessions : Close(t, s)

\* The connection locator on its own: any session registered under any key
\* (a reconnecting node's new session takes the key of its old one), and the
\* lookups of the handlers that do not go on to the channels.
LocatorNext ==
    \/ \E k \in Keys, s \in Sessions : Register(k, s)
    \/ \E k \in Keys : Remove(k)
    \/ \E h \in Handlers, body \in Bodies : DisconnectDecode(h, body)
    \/ \E h \in Handlers : DisconnectGetConnection(h)
    \/ \E h \in Handlers : DisconnectClose(h)
    \/ \E h \in Handlers, body \in Bodies : StatusDecode(h, body)
    \/ \E h \in Handlers : StatusGetConnection(h)
    \/ \E h \in Handlers : StatusGetCapabilities(h)
    \/ \E h \in Handlers : StatusRespond(h)
    \/ \E h \in Handlers, body \in Bodies : PingDecode(h, body)
    \/ \E h \in Handlers : PingGetConnection(h)
    \/ \E h \in Handlers : PingDispatchFails(h)
    \/ \E h \in Handlers : PingRespond(h)

\* A cancelled request: the status, ping and disconnect handlers, SendMessage
\* calls whose callers' deadlines pass while they are blocked, the transport
\* loop, and the transport registering the session, all on the session with
\* the smallest channel.
CancellationNext ==
    \/ Register(SessionKey(BusySession), BusySession)
    \/ \E h \in Handlers, body \in Bodies : DisconnectDecode(h, body)
    \/ \E h \in Handlers : DisconnectGetConnection(h)
    \/ \E h \in Handlers : DisconnectClose(h)
    \/ \E h \in Handlers, body \in Bodies : StatusDecode(h, body)
    \/ \E h \in Handlers : StatusGetConnection(h)
    \/ \E h \in Handlers : StatusGetCapabilities(h)
    \/ \E h \in Handlers : StatusRespond(h)
    \/ \E h \in Handlers, body \in Bodies : PingDecode(h, body)
    \/ \E h \in Handlers : PingGetConnection(h)
    \/ \E h \in Handlers : PingDispatch(h)
    \/ \E h \in Handlers : PingDispatchFails(h)
    \/ \E h \in Handlers : PingReply(h)
    \/ \E h \in Handlers : PingRespond(h)
    \/ \E t \in Tasks, req \in Requests : CallSendMessage(t, BusySession, req)
    \/ \E t \in Tasks : NewRandomOk(t)
    \/ \E t \in Tasks : NewRandomFails(t)
    \/ \E t \in Tasks : SendOnChannel(t)
    \/ \E t \in Tasks : ReturnJobID(t)
    \/ \E t \in Tasks : DeadlineExpiresBlocked(t)
    \/ TransportReceive(BusySession)

\* Dispatch on the session with the smallest channel: SendMessage calls, the
\* transport loop, Close and caller deadlines.
ReleaseNext ==
    \/ \E t \in Tasks, req \in Requests : CallSendMessage(t, BusySession, req)
    \/ \E t \in Tasks : NewRandomOk(t)
    \/ \E t \in Tasks : NewRandomFails(t)
    \/ \E t \in Tasks : SendOnChannel(t)
    \/ \E t \in Tasks : ReturnJobID(t)
    \/ \E t \in Tasks : DeadlineExpires(t)
    \/ TransportReceive(BusySession)
    \/ \E t \in Tasks : Close(t, BusySession)

\* The two groups of methods share no program variable, so each is checked
\* in a specification of its own.
Spec == Init /\ [][DispatchNext]_vars

RegistrationSpec == Init /\ [][RegistrationNext]_vars

ManagementSpec == Init /\ [][ManagementNext]_vars

LocatorSpec == Init /\ [][LocatorNext]_vars

CancellationSpec == Init /\ [][CancellationNext]_vars

\* Scheduling: a goroutine that can take its next step eventually takes it.
\* Nothing obliges a caller to start a call, a deadline to pass or Close to
\* be called.  The transport loop is left out here: FairSpec is for a
\* transport that does not consume; TransportFairness adds one that does.
DispatchFairness ==
    \A t \in Tasks :
        /\ WF_vars(NewRandomOk(t) \/ NewRandomFails(t))
        /\ WF_vars(SendOnChannel(t))
        /\ WF_vars(ReturnJobID(t))

FairSpec == Spec /\ DispatchFairness

\* The transport loop of a session keeps reading its channel: whenever a
\* Message waits in it, the loop eventually receives.
TransportFairness == \A s \in Sessions : WF_vars(TransportReceive(s))

\* A session in use: the state CallSendMessage, NewRandomOk, SendOnChannel and
\* ReturnJobID leave after the earlier call on the busy session.  The
\* identifier has been drawn and returned to the caller, and the Message is on
\* the channel, not yet read by the transport.
ReleaseInit ==
    /\ session = [s \in Sessions |-> NewReceptorService(s)]
    /\ SendChannel = [s \in Sessions |->
                         IF s = BusySession THEN ChanSend(<< >>, EarlierMessage) ELSE << >>]
    /\ sent = [s \in Sessions |->
                  IF s = BusySession THEN << EarlierMessage >> ELSE << >>]
    /\ issued = {EarlierUUID}
    /\ pc = [t \in Tasks |-> "idle"]
    /\ frame = [t \in Tasks |->
                   IF t = EarlierCaller
                   THEN [op |-> "SendMessage", s |-> BusySession, req |-> EarlierRequest]
                   ELSE NoCall]
    /\ local = [t \in Tasks |-> NoLocal]
    /\ ret = [t \in Tasks |->
                 IF t = EarlierCaller THEN [id |-> EarlierUUID, err |-> Nil]
                                      ELSE [err |-> Nil]]
    /\ received = [s \in Sessions |-> << >>]
    /\ closeCalled = [s \in Sessions |-> FALSE]
    /\ closedBefore = [t \in Tasks |-> FALSE]
    /\ expired = [t \in Tasks |-> FALSE]
    /\ registered = [s \in Sessions |-> {}]
    /\ disturbed = [t \in Tasks |-> FALSE]
    /\ connectionMgr = [k \in Keys |-> NoSession]
    /\ hpc = [h \in Handlers |-> "idle"]
    /\ connID = [h \in Handlers |-> NoRequest]
    /\ client = [h \in Handlers |-> NoSession]
    /\ result = [h \in Handlers |-> NoResult]
    /\ response = [h \in Handlers |-> NoResponse]
    /\ pingJobs = [h \in Handlers |-> << >>]
    /\ lastOp = [k \in Keys |-> NoOp]
    /\ closedAgain = [s \in Sessions |-> FALSE]

\* SendMessage calls on a session in use whose transport keeps reading.
ReleaseSpec ==
    ReleaseInit /\ [][ReleaseNext]_vars /\ DispatchFairness /\ TransportFairness

(* ---------------------- what the claims talk about ---------------------- *)

\* Every Message that has been placed on s's channel: those the transport has
\* read, then those still in the buffer.
Placed(s) == received[s] \o SendChannel[s]

\* How many Messages placed on s's channel carry the identifier id.
Carrying(s, id) ==
    Cardinality({ i \in DOMAIN Placed(s) : Placed(s)[i].MessageID = id })

\* Task t's last SendMessage call has returned an identifier.
ReturnedID(t) ==
    /\ pc[t] = "idle"
    /\ frame[t].op = "SendMessage"
    /\ ret[t].err = Nil

\* Task t's SendMessage call is past its channel send.
PastSend(t) ==
    /\ frame[t].op = "SendMessage"
    /\ pc[t] = "sm61" \/ ReturnedID(t)

\* The identifier of t's SendMessage call: the one returned, or the local
\* jobID while the call runs.
JobIDOf(t) == IF pc[t] = "idle" THEN ret[t].id ELSE local[t].jobID

(* ------------------------------- claims --------------------------------- *)

\* C1: a SendMessage call places exactly one Message carrying its identifier,
\* on its own session's channel and on no other, and has done so by the time
\* the identifier is returned: before the send no channel holds a Message
\* with the call's identifier, from the send on (and so at the return)
\* exactly one does, on the receiver's channel.
C1_ExactlyOneEnqueue ==
    \A t \in Tasks :
        /\ pc[t] = "sm59" =>
              \A s \in Sessions : Carrying(s, local[t].jobID) = 0
        /\ PastSend(t) =>
              /\ JobIDOf(t) /= Nil
              /\ Carrying(frame[t].s, JobIDOf(t)) = 1
              /\ \A s \in Sessions \ {frame[t].s} : Carrying(s, JobIDOf(t)) = 0

\* A call on s1 has returned its identifier while s2's channel has been used too.
C1_Witness ==
    \E t \in Tasks :
        /\ ReturnedID(t)
        /\ frame[t].s = "s1"
        /\ Placed("s2") /= << >>

\* C2 (as claimed): a SendMessage call that is parked at a full channel when
\* its caller's deadline passes eventually returns.
C2_DeadlineRespected ==
    \A t \in Tasks :
        (pc[t] = "sm59" /\ expired[t] /\ ~CanSend(SendChannel[frame[t].s], ChanCapOf(frame[t].s)))
            ~> (pc[t] = "idle")

\* C3 (as claimed): a SendMessage call begun after Close was called on its
\* session never gets past the send and returns no identifier.
C3_FailsFastWhenClosed ==
    \A t \in Tasks :
        (frame[t].op = "SendMessage" /\ closedBefore[t]) =>
            /\ pc[t] /= "sm61"
            /\ pc[t] = "idle" => (ret[t].id = Nil /\ ret[t].err /= Nil)

\* C4: identifiers are unique.  Calls that returned identifiers returned
\* pairwise distinct ones, every identifier returned or carried by a Message
\* was drawn from the random source (the caller supplies none), and no two
\* Messages placed on any channels carry the same identifier.
C4_UniqueIDs ==
    /\ \A t, u \in Tasks :
          (t /= u /\ ReturnedID(t) /\ ReturnedID(u)) => ret[t].id /= ret[u].id
    /\ \A t \in Tasks : ReturnedID(t) => ret[t].id \in issued
    /\ \A s \in Sessions : \A i \in DOMAIN Placed(s) :
          /\ Placed(s)[i].MessageID \in issued
          /\ \A s2 \in Sessions : \A j \in DOMAIN Placed(s2) :
                (Placed(s)[i].MessageID = Placed(s2)[j].MessageID) => (s = s2 /\ i = j)

\* Two calls that ran at the same time on one session have both returned.
C4_Witness ==
    /\ \A t \in Tasks : ReturnedID(t) /\ frame[t].s = "s2"
    /\ Len(SendChannel["s2"]) = 2

\* C5: when the random source fails in a SendMessage call, that step ends the
\* call with a nil identifier and the source's error, and changes neither a
\* channel, nor a session's fields, nor the random source.
C5_IDFailureNoEffect ==
    [][ \A t \in Tasks :
          (local[t].err = Nil /\ local'[t].err /= Nil) =>
              /\ pc'[t] = "idle"
              /\ ret'[t] = [id |-> Nil, err |-> local'[t].err]
              /\ UNCHANGED << mgmtVars, session, SendChannel, sent, received, issued >>
      ]_vars

\* A call has failed for want of an identifier while another task's call,
\* begun on the same session, still gets one and sends.
C5_Witness ==
    \E t, u \in Tasks :
        /\ pc[t] = "idle" /\ frame[t].op = "SendMessage" /\ ret[t].err = ErrRand
        /\ ret[t].id = Nil
        /\ pc[u] = "sm61" /\ frame[u].s = frame[t].s

\* C6: per session, the transport reads Messages in the order the sends
\* completed, none reordered, duplicated or dropped: what it has read,
\* followed by what is still buffered, is the sequence of completed sends.
C6_PerSessionFIFO ==
    \A s \in Sessions : received[s] \o SendChannel[s] = sent[s]

\* The transport has read two Messages that sat in one buffer together.
C6_Witness ==
    /\ Len(received["s2"]) = 2
    /\ received["s2"][1] /= received["s2"][2]

\* C7: the Message a SendMessage call places carries the call's recipient,
\* route (in order), payload and directive, and the identifier the call returns.
C7_FaithfulMessage ==
    \A t \in Tasks :
        PastSend(t) =>
            \E i \in DOMAIN Placed(frame[t].s) :
                Placed(frame[t].s)[i] =
                    [ MessageID |-> JobIDOf(t),
                      Recipient |-> frame[t].req.recipient,
                      RouteList |-> frame[t].req.route,
                      Payload   |-> frame[t].req.payload,
                      Directive |-> frame[t].req.directive ]

\* Calls with an empty and with a two-hop route have both returned.
C7_Witness ==
    \E t, u \in Tasks :
        /\ ReturnedID(t) /\ frame[t].req.route = << >>
        /\ ReturnedID(u) /\ frame[u].req.route = <<"nodeX", "nodeY">>

\* Task t's last RegisterConnection call has returned and no
\* RegisterConnection call is running on the same session.
RegisteredLast(t) ==
    /\ pc[t] = "idle"
    /\ frame[t].op = "RegisterConnection"
    /\ \A u \in Tasks : ~(InRegisterConnection(u) /\ frame[u].s = frame[t].s)

\* The (peerNodeID, metadata) pair the struct's fields hold.
RegistrationOf(r) == [peerNodeID |-> r.PeerNodeID, metadata |-> r.Metadata]

\* The pair the fields hold once a call with arguments reg has stored all of it.
StoredAs(reg) ==
    [peerNodeID |-> StringWords(reg.peerNodeID), metadata |-> IfaceWords(reg.metadata)]

\* Session s holds the registration reg whole: its peer identity and its
\* metadata are the two arguments, and a capability read of the session that
\* succeeds returns that metadata.
HoldsRegistration(s, reg) ==
    /\ RegistrationOf(session[s]) = StoredAs(reg)
    /\ \A res \in GetCapabilities(session[s], closeCalled[s]) :
          res.err = Nil => res.value = reg.metadata.data

\* C8 (as claimed): RegisterConnection(peerNodeID, metadata) returns nil, and
\* once it has returned and no registration of the session is running, the
\* session holds (peerNodeID, metadata) whole and a capability read returns
\* that metadata, unless a registration that ran beside it or began after it
\* has replaced it, and then the session holds that registration whole.
C8_RegisterRoundTrip ==
    \A t \in Tasks :
        RegisteredLast(t) =>
            /\ ret[t].err = Nil
            /\ IF disturbed[t]
               THEN \E reg \in registered[frame[t].s] : HoldsRegistration(frame[t].s, reg)
               ELSE HoldsRegistration(frame[t].s, frame[t].reg)

\* C9 (as claimed): after UpdateRoutingTable(edges, seen) has returned, the
\* session's stored routing facts are the (edges, seen) supplied.
C9_SnapshotStored ==
    \A t \in Tasks :
        (pc[t] = "idle" /\ frame[t].op = "UpdateRoutingTable") =>
            /\ ret[t].err = Nil
            /\ \E u \in Tasks :
                  /\ frame[u].op = "UpdateRoutingTable"
                  /\ frame[u].s = frame[t].s
                  /\ RoutingFacts(session[frame[t].s]) = frame[u].upd

\* C10 (as claimed): whenever no RegisterConnection call is running on a
\* session, its (peer identity, metadata) pair is the one it was built with
\* or the pair of one of the calls made on it, never a mix of two calls.
C10_NoMixedRegistration ==
    \A s \in Sessions :
        (\A t \in Tasks : ~(InRegisterConnection(t) /\ frame[t].s = s)) =>
            \/ RegistrationOf(session[s]) = RegistrationOf(NewReceptorService(s))
            \/ \E reg \in registered[s] : RegistrationOf(session[s]) = StoredAs(reg)

(* ------------------ claims about the management server ------------------ *)

\* Handler h takes the step from `from` that writes its response.
Answers(h, from) == hpc[h] = from /\ hpc'[h] = "idle"

\* Handler h takes the step from `from` that goes on at `to`.
GoesOn(h, from, to) == hpc[h] = from /\ hpc'[h] = to

\* C11: Close is idempotent.  A Close call on a session Close has already
\* been called on (by a direct caller or by a disconnect request, whatever
\* ran in between) faults nothing (the disconnect request is answered 200)
\* and changes nothing of the session: its fields, its channel and what the
\* channel holds stay as the first call left them.
C11_CloseIdempotent ==
    [][\A s \in Sessions :
          closeCalled[s] =>
              /\ (\E t \in Tasks : Close(t, s)) =>
                     UNCHANGED << session, SendChannel, closeCalled >>
              /\ \A h \in Handlers :
                     (client[h] = s /\ DisconnectClose(h)) =>
                         /\ UNCHANGED << session, SendChannel, closeCalled >>
                         /\ response'[h] = [code |-> StatusOK, kind |-> "empty"]]_vars

\* A disconnect request has called Close on a session that Close had been
\* called on, while the session's channel held a Message.
C11_Witness ==
    \E s \in Sessions : closedAgain[s] /\ SendChannel[s] /= << >>

\* Handler h is serving a request of the named handler.
Serving(h, handler) == hpc[h] /= "idle" /\ connID[h].handler = handler

\* What the connection locator holds for the key of h's request.
Indexed(h) == connectionMgr[KeyOf(connID[h])]

\* C12: the status operation reports what its lookup returned.  A status
\* request is answered 200 in both cases; it is answered "disconnected",
\* without capabilities and without a capability query, exactly when the
\* lookup of its key returned no session, and "connected", after one
\* capability query on the session the lookup returned, when it returned one.
C12_StatusReflectsLookup ==
    [][\A h \in Handlers :
          Serving(h, "status") =>
              /\ Answers(h, "st136") =>
                     /\ Indexed(h) = NoSession
                     /\ ~result[h].called
                     /\ response'[h] = StatusResponse(DISCONNECTED_STATUS, Nil)
              /\ GoesOn(h, "st136", "st139") =>
                     /\ Indexed(h) /= NoSession
                     /\ client'[h] = Indexed(h)
                     /\ ~result[h].called
              /\ hpc[h] = "st136" => hpc'[h] \in {"st136", "st139", "idle"}
              /\ Answers(h, "st140") =>
                     /\ client[h] /= NoSession
                     /\ result[h].called
                     /\ response'[h].code = StatusOK
                     /\ response'[h].Status = CONNECTED_STATUS]_vars

\* A status request has been answered "disconnected" for a key without a
\* session while the other key had one.
C12_Witness ==
    \E h \in Handlers :
        /\ hpc[h] = "idle"
        /\ response[h] = StatusResponse(DISCONNECTED_STATUS, Nil)
        /\ \E k \in Keys : connectionMgr[k] /= NoSession

\* C13 (as claimed): when the lookup found the session and the capability
\* query returned an error, the status request is answered 200 "connected"
\* and the response has no capabilities, whatever value came with the error.
C13_FailedQueryOmitsCapabilities ==
    [][\A h \in Handlers :
          (Serving(h, "status") /\ Answers(h, "st140") /\ result[h].err /= Nil) =>
              response'[h] = StatusResponse(CONNECTED_STATUS, Nil)]_vars

\* The ping job for the node of h's request under some identifier.
IsPingJobFor(msg, h) ==
    /\ msg.MessageID \in UUIDs
    /\ msg.Recipient = connID[h].NodeID
    /\ msg.RouteList = << connID[h].NodeID >>
    /\ msg.Directive = PingDirective

\* C14: the three outcomes of ping.  With no session for the key the request
\* is answered 200 "disconnected" without payload and nothing is dispatched.
\* With a session, one job is dispatched, on that session's channel and no
\* other, with the ping directive and a route that is the target node alone;
\* when the reply has come the request is answered 200 "connected" with the
\* reply's payload.  When dispatch or reply failed the request is answered
\* with the failure "Ping failed", which is neither status, and no step of
\* the request but the dispatch puts anything on a channel.
C14_PingThreeWay ==
    [][\A h \in Handlers :
          Serving(h, "ping") =>
              /\ Answers(h, "pg183") =>
                     /\ Indexed(h) = NoSession
                     /\ response'[h] = PingResponse(DISCONNECTED_STATUS, Nil)
                     /\ pingJobs[h] = << >>
                     /\ UNCHANGED << SendChannel, sent >>
              /\ GoesOn(h, "pg183", "pg191") =>
                     /\ Indexed(h) /= NoSession
                     /\ client'[h] = Indexed(h)
                     /\ UNCHANGED << SendChannel, sent >>
              /\ GoesOn(h, "pg191", "pg191_wait") =>
                     /\ pingJobs[h] = << >>
                     /\ Len(pingJobs'[h]) = 1
                     /\ IsPingJobFor(pingJobs'[h][1], h)
                     /\ SendChannel' = [SendChannel EXCEPT ![client[h]] =
                                            Append(@, pingJobs'[h][1])]
              /\ (GoesOn(h, "pg191", "pg192") \/ GoesOn(h, "pg191_wait", "pg192")) =>
                     /\ pingJobs'[h] = pingJobs[h]
                     /\ UNCHANGED << SendChannel, sent >>
              /\ Answers(h, "pg192") =>
                     /\ UNCHANGED << SendChannel, sent >>
                     /\ IF result[h].err = Nil
                        THEN /\ Len(pingJobs[h]) = 1
                             /\ result[h].value = PongPayload
                             /\ response'[h] = PingResponse(CONNECTED_STATUS, PongPayload)
                        ELSE /\ Len(pingJobs[h]) <= 1
                             /\ response'[h].code = StatusBadRequest
                             /\ response'[h].kind = "error"
                             /\ response'[h].title = "Ping failed"]_vars

\* A ping has been answered "connected" with the reply's payload after the
\* transport took its job, routed to the target node alone, off the channel.
C14_Witness ==
    \E h \in Handlers, s \in Sessions :
        /\ hpc[h] = "idle"
        /\ response[h] = PingResponse(CONNECTED_STATUS, PongPayload)
        /\ \E i \in DOMAIN received[s] :
              /\ received[s][i].Directive = PingDirective
              /\ received[s][i].RouteList = << NodeIDOf(s) >>

\* C15 (as claimed): a ping that ends with SessionClosed is answered
\* "disconnected" and not with an error, while a ping that ends with Timeout,
\* UpstreamFault or IdentifierGenerationFailure is answered with that failure.
C15_ErrorTranslation ==
    [][\A h \in Handlers :
          (Serving(h, "ping") /\ Answers(h, "pg192")) =>
              /\ result[h].err = ErrSessionClosed =>
                     response'[h] = PingResponse(DISCONNECTED_STATUS, Nil)
              /\ result[h].err \in {ErrTimeout, ErrUpstreamFault, ErrIdentifierGeneration} =>
                     /\ response'[h].kind = "error"
                     /\ response'[h].detail = result[h].err]_vars

\* C16: disconnect acts only on an existing session.  With no session for
\* the key the request is answered with the not-found failure and Close is
\* called on no session; with one, the lookup calls Close on none, the next
\* step calls Close on the session the lookup returned and on no other, and
\* the request is answered 200.
C16_DisconnectOnlyExisting ==
    [][\A h \in Handlers :
          Serving(h, "disconnect") =>
              /\ Answers(h, "dc89") =>
                     /\ Indexed(h) = NoSession
                     /\ response'[h] = ErrorResponse(StatusBadRequest,
                                                     NoConnectionFound(connID[h]),
                                                     NoConnectionFound(connID[h]))
                     /\ UNCHANGED << closeCalled, closedAgain >>
              /\ GoesOn(h, "dc89", "dc103") =>
                     /\ Indexed(h) /= NoSession
                     /\ client'[h] = Indexed(h)
                     /\ UNCHANGED << closeCalled, closedAgain >>
              /\ hpc[h] = "dc89" => hpc'[h] \in {"dc89", "dc103", "idle"}
              /\ Answers(h, "dc103") =>
                     /\ client[h] /= NoSession
                     /\ closeCalled' = [closeCalled EXCEPT ![client[h]] = TRUE]
                     /\ \A s \in Sessions \ {client[h]} : closedAgain'[s] = closedAgain[s]
                     /\ ~closeCalled[client[h]] => ~closedAgain'[client[h]]
                     /\ response'[h] = [code |-> StatusOK, kind |-> "empty"]]_vars

\* A disconnect request has been answered 200 with Close called once on one
\* session, while the other session, registered too, has not been closed.
C16_Witness ==
    \E h \in Handlers, s \in Sessions, o \in Sessions :
        /\ hpc[h] = "idle"
        /\ response[h] = [code |-> StatusOK, kind |-> "empty"]
        /\ closeCalled[s] /\ ~closedAgain[s]
        /\ ~closeCalled[o]
        /\ connectionMgr[SessionKey(o)] = o

\* Handler h takes the step that looks its key up in the connection locator.
LooksUp(h) == hpc[h] \in {"dc89", "st136", "pg183"} /\ hpc'[h] /= hpc[h]

\* What that lookup returned: the handler answers at once when it is nil and
\* goes on with the client otherwise.
LookedUp(h) == IF hpc'[h] = "idle" THEN NoSession ELSE client'[h]

\* C17: registry reads are linearizable with Register and Remove.  A lookup
\* by a status, ping or disconnect request returns what the last completed
\* Register or Remove on its key left: nothing after a Remove (or when there
\* was neither), the session of the Register otherwise, and so never the
\* session that Register took the key from.
C17_LinearizableReads ==
    [][\A h \in Handlers :
          LooksUp(h) =>
              LET last == lastOp[KeyOf(connID[h])]
              IN /\ last.op \in {"none", "Remove"} => LookedUp(h) = NoSession
                 /\ last.op = "Register" =>
                        /\ LookedUp(h) = last.s
                        /\ LookedUp(h) /= last.displaced]_vars

\* A request holds the session a Register put in the place of another
\* session under the request's key.
C17_Witness ==
    \E h \in Handlers :
        /\ hpc[h] \in {"dc103", "st139", "pg191"}
        /\ lastOp[KeyOf(connID[h])].op = "Register"
        /\ lastOp[KeyOf(connID[h])].displaced /= NoSession
        /\ client[h] = lastOp[KeyOf(connID[h])].s

\* A step of a request that has been cancelled or has timed out: a step of
\* a status or ping handler whose session operation ended, or ends in this
\* step, with Timeout, or a step of a SendMessage call whose caller's
\* deadline has passed (in CancellationSpec: has passed while the call was
\* blocked at its send).
HandlesCancellation ==
    \/ \E h \in Handlers :
          /\ hpc'[h] /= hpc[h]
          /\ result[h].err = ErrTimeout \/ result'[h].err = ErrTimeout
    \/ \E t \in Tasks :
          /\ InSendMessage(t)
          /\ expired[t]
          /\ pc'[t] /= pc[t]

\* C18 (as claimed): cancellation has no side effect on the session.  Every
\* step of a status request, a ping request or a SendMessage call that has
\* been cancelled or has timed out leaves every session's fields, channel
\* and closed state and every registry entry as they were; Close is called
\* on a session only by the disconnect handler's Close step.
C18_CancellationNoSideEffect ==
    [][/\ HandlesCancellation =>
             UNCHANGED << session, SendChannel, closeCalled, connectionMgr >>
       /\ closeCalled' /= closeCalled =>
             \E h \in Handlers : Serving(h, "disconnect") /\ Answers(h, "dc103")]_vars

\* Handler h takes a step of a control-plane request: one of disconnect,
\* status or ping (the step that answers a body that does not decode
\* included, which starts and ends with the handler idle), or the whole of a
\* listing.
ControlStep(h) ==
    \/ hpc'[h] /= hpc[h]
    \/ \E body \in Bodies : \/ DisconnectDecode(h, body)
                             \/ StatusDecode(h, body)
                             \/ PingDecode(h, body)
    \/ HandleConnectionListing(h)
    \/ \E a \in AccountIDs : HandleConnectionListingByAccount(h, a)

\* C19: control operations never change the registry.  Every step of a
\* disconnect, status, ping or listing request leaves the entries of the
\* connection locator as they were (and is no Register or Remove); the key
\* of a disconnect request answered 200 still has its session.
C19_ControlOpsKeepRegistry ==
    [][\A h \in Handlers :
          /\ ControlStep(h) => UNCHANGED << connectionMgr, lastOp >>
          /\ (Serving(h, "disconnect") /\ Answers(h, "dc103")) =>
                 /\ GetConnection(connectionMgr', connID[h].Account, connID[h].NodeID)
                        = Indexed(h)]_vars

\* A disconnect request has been answered 200 and the session it closed is
\* still registered.
C19_Witness ==
    \E h \in Handlers, s \in Sessions :
        /\ hpc[h] = "idle"
        /\ response[h] = [code |-> StatusOK, kind |-> "empty"]
        /\ closeCalled[s]
        /\ GetConnection(connectionMgr, AccountOf(s), NodeIDOf(s)) = s

(* ------------------------- release of a blocked send -------------------- *)

\* C20: a blocked SendMessage is always released.  With a transport loop
\* that keeps reading, every SendMessage call that has generated its
\* identifier returns, whether or not Close is called on the session while
\* the call waits, and also when both callers wait on a full channel.
C20_BlockedSendReleased ==
    \A t \in Tasks : (pc[t] = "sm59") ~> (pc[t] = "idle")

\* Both callers hold an identifier and wait at the send on the session whose
\* channel is full, and Close has been called on the session.
C20_Witness ==
    /\ \A t \in Tasks : pc[t] = "sm59" /\ frame[t].s = BusySession
    /\ ~CanSend(SendChannel[BusySession], ChanCapOf(BusySession))
    /\ closeCalled[BusySession]

====
